---------------------------- MODULE Spec2Model ----------------------------
(***************************************************************************)
(* Speech Confidence Coach (src/src/app.py): the Streamlit application as  *)
(* a state machine.                                                        *)
(*                                                                         *)
(* Streamlit re-executes main() from the top after every user event.  One  *)
(* action of this module is one user event together with the complete      *)
(* script run it triggers, including the immediate second run requested by *)
(* st.rerun().  The state is st.session_state (current_session,            *)
(* analysis_results, audio_file), the values held by the widgets, and the  *)
(* wall clock read by datetime.now().                                      *)
(*                                                                         *)
(* The source holds no metric computation: analyze_audio stores a literal  *)
(* dictionary.  That literal is modelled as it is written.  Decimal        *)
(* literals are kept in tenths (5.2 is 52, 0.8 is 8).                      *)
(*                                                                         *)
(* Two further specifications cover the scripts under src/tests:           *)
(* FeedbackSpec, the CoachingFeedback model of test_openai.py, and         *)
(* TempFileSpec, the temporary files of test_streamlit_audio.py.           *)
(***************************************************************************)
EXTENDS Integers, Sequences, FiniteSets, TLC

VARIABLES
    page,               \* value of the sidebar radio
    audio_recording,    \* value of the st.audio_input widget
    uploaded_file,      \* value of the st.file_uploader widget
    audio_file,         \* st.session_state.audio_file
    analysis_results,   \* st.session_state.analysis_results
    current_session,    \* st.session_state.current_session
    target_wpm,         \* value of the "Target Words Per Minute" slider
    max_filler_rate,    \* value of the "Max Acceptable Filler Rate" slider, tenths
    clock,              \* datetime.now(), in seconds
    calls,              \* history: one record per completed analyze_audio call
    fb_data,            \* test_openai.py: the data last given to CoachingFeedback
    fb_outcome,         \* test_openai.py: "accepted", or "rejected" (ValidationError)
    fb_test,            \* test_openai.py: result of test_json_schema_validation
    t_in,               \* test_streamlit_audio.py: the widget values of this run
    t_fn,               \* test_streamlit_audio.py: the function main() is in
    t_pc,               \* test_streamlit_audio.py: the position in that function
    t_path,             \* test_streamlit_audio.py: tmp_file_path
    t_made,             \* history: the temporary file this call has created
    t_count,            \* number of temporary files created so far
    t_files             \* the temporary files that exist on disk

appVars == <<page, audio_recording, uploaded_file, audio_file, analysis_results,
             current_session, target_wpm, max_filler_rate, clock, calls>>

feedbackVars == <<fb_data, fb_outcome, fb_test>>

tempVars == <<t_in, t_fn, t_pc, t_path, t_made, t_count, t_files>>

vars == <<appVars, feedbackVars, tempVars>>

---------------------------------------------------------------------------
(* Bounds *)

\* Number of distinct audio contents a user can record or upload.
NumAudio == 2

\* The clock stops advancing here.
MaxClock == 6

---------------------------------------------------------------------------
(* Python's None and a present value *)

None == <<>>

Some(x) == <<x>>

Audio == 1..NumAudio

---------------------------------------------------------------------------
(* sidebar_navigation and settings_page *)

Pages == {"Record & Analyze", "Practice History", "Mock Interview", "Settings"}

DefaultPage == "Record & Analyze"

\* st.slider("Target Words Per Minute", 120, 200, 160): lowest, default, highest
TargetWpmValues == {120, 160, 200}

DefaultTargetWpm == 160

\* st.slider("Max Acceptable Filler Rate (per minute)", 0.0, 10.0, 3.0, 0.5), tenths
MaxFillerRateValues == {0, 30, 100}

DefaultMaxFillerRate == 30

---------------------------------------------------------------------------
(* analyze_audio: the literal it stores *)

\* time.sleep(2)
SleepSeconds == 2

\* results["transcript"], as its whitespace-separated words
PlaceholderTranscript ==
    << "Um,", "so", "I", "think", "my", "biggest", "strength", "is,", "uh,",
       "definitely", "problem-solving.", "I", "really", "enjoy,", "like,",
       "working", "through", "complex", "challenges", "and", "finding",
       "creative", "solutions.", "You", "know,", "in", "my", "previous",
       "role..." >>

\* A report whose filler count exceeds the number of transcribed words.
MetricsFillerAboveWords ==
    [ words_per_minute |-> 145,
      filler_count     |-> 30,
      filler_rate      |-> 52,
      average_pause    |-> 8,
      long_pauses      |-> 3,
      total_duration   |-> 92 ]

\* A report whose duration is taken from the wall clock instead of the audio.
MetricsFromClock ==
    [ words_per_minute |-> 145,
      filler_count     |-> 8,
      filler_rate      |-> 52,
      average_pause    |-> 8,
      long_pauses      |-> 3,
      total_duration   |-> 92 + clock ]

\* results["metrics"]; filler_rate and average_pause in tenths
PlaceholderMetrics ==
    [ words_per_minute |-> 145,
      filler_count     |-> 8,
      filler_rate      |-> 52,
      average_pause    |-> 8,
      long_pauses      |-> 3,
      total_duration   |-> 92 ]

\* Scores with one dimension off the 1..5 scale.
ScoresFluencyOffScale ==
    [ pace |-> 4, clarity |-> 3, fluency |-> 0, conciseness |-> 3, overall |-> 3 ]

\* Scores whose aggregate is not the rounded mean of the four dimensions.
ScoresOverallAboveMean ==
    [ pace |-> 4, clarity |-> 3, fluency |-> 2, conciseness |-> 3, overall |-> 4 ]

\* results["scores"]
PlaceholderScores ==
    [ pace |-> 4, clarity |-> 3, fluency |-> 2, conciseness |-> 3, overall |-> 3 ]

\* results["feedback"]
PlaceholderFeedback ==
    [ strengths |->
        << "Good speaking pace - not too fast or slow",
           "Clear articulation and pronunciation",
           "Confident tone throughout response" >>,
      improvements |->
        << "Reduce filler words ('um', 'uh', 'like') - found 8 instances",
           "Minimize long pauses to maintain flow",
           "Structure response more clearly with specific examples" >>,
      practice_drills |->
        << "Re-record this response in under 60 seconds without filler words",
           "Practice the STAR method: Situation, Task, Action, Result",
           "Record yourself reading for 2 minutes to improve fluency" >> ]

\* The dictionary assigned to st.session_state.analysis_results
PlaceholderResults ==
    [ transcript |-> PlaceholderTranscript,
      metrics    |-> PlaceholderMetrics,
      scores     |-> PlaceholderScores,
      feedback   |-> PlaceholderFeedback ]

---------------------------------------------------------------------------
(* display_analysis_results: help="Ideal range: 140-180 WPM" *)

IdealWpmLow == 140

IdealWpmHigh == 180

---------------------------------------------------------------------------
(* record_analyze_page: the audio input section *)

\* A variant that forgets the stored audio once both widgets are empty.
StoreAudioInputsFromWidgetsOnly(rec, upl, af) ==
    IF upl # None THEN upl ELSE rec

\* Lines 83-84 then 96-97: a present recording is stored, then a present
\* upload overwrites it; with neither, audio_file keeps its value.
StoreAudioInputs(rec, upl, af) ==
    IF upl # None THEN upl
    ELSE IF rec # None THEN rec
    ELSE af

\* The "Analyze Speech" button is rendered by the last run.
AnalyzeOffered == page = "Record & Analyze" /\ audio_file # None

\* display_analysis_results ran in the last run.
ResultsDisplayed == page = "Record & Analyze" /\ analysis_results # None

---------------------------------------------------------------------------
(* State after the first run of main() in a fresh browser session *)

Init ==
    /\ page = DefaultPage
    /\ audio_recording = None
    /\ uploaded_file = None
    /\ audio_file = None
    /\ analysis_results = None
    /\ current_session = None
    /\ target_wpm = DefaultTargetWpm
    /\ max_filler_rate = DefaultMaxFillerRate
    /\ clock = 0
    /\ calls = {}
    /\ fb_data = None
    /\ fb_outcome = "none"
    /\ fb_test = "not run"
    /\ t_in = None
    /\ t_fn = "none"
    /\ t_pc = "idle"
    /\ t_path = None
    /\ t_made = None
    /\ t_count = 0
    /\ t_files = {}

---------------------------------------------------------------------------
(* User events, each with the script run it triggers *)

\* Time passes between events.
Tick ==
    /\ clock < MaxClock
    /\ clock' = clock + 1
    /\ UNCHANGED <<page, audio_recording, uploaded_file, audio_file,
                   analysis_results, current_session, target_wpm,
                   max_filler_rate, calls>>

\* The sidebar radio is moved to another page.  Widgets that the new page
\* does not create lose their values.
Navigate(p) ==
    /\ p # page
    /\ page' = p
    /\ audio_recording' = None
    /\ uploaded_file' = None
    /\ target_wpm' = DefaultTargetWpm
    /\ max_filler_rate' = DefaultMaxFillerRate
    /\ audio_file' = audio_file
    /\ UNCHANGED <<analysis_results, current_session, clock, calls>>

\* The user records audio.
Record(a) ==
    /\ page = "Record & Analyze"
    /\ audio_recording # Some(a)
    /\ audio_recording' = Some(a)
    /\ audio_file' = StoreAudioInputs(audio_recording', uploaded_file, audio_file)
    /\ UNCHANGED <<page, uploaded_file, analysis_results, current_session,
                   target_wpm, max_filler_rate, clock, calls>>

\* The user deletes the recording from the widget.
ClearRecording ==
    /\ page = "Record & Analyze"
    /\ audio_recording # None
    /\ audio_recording' = None
    /\ audio_file' = StoreAudioInputs(None, uploaded_file, audio_file)
    /\ UNCHANGED <<page, uploaded_file, analysis_results, current_session,
                   target_wpm, max_filler_rate, clock, calls>>

\* The user uploads a file.
Upload(a) ==
    /\ page = "Record & Analyze"
    /\ uploaded_file # Some(a)
    /\ uploaded_file' = Some(a)
    /\ audio_file' = StoreAudioInputs(audio_recording, uploaded_file', audio_file)
    /\ UNCHANGED <<page, audio_recording, analysis_results, current_session,
                   target_wpm, max_filler_rate, clock, calls>>

\* The user removes the uploaded file from the widget.
RemoveUpload ==
    /\ page = "Record & Analyze"
    /\ uploaded_file # None
    /\ uploaded_file' = None
    /\ audio_file' = StoreAudioInputs(audio_recording, None, audio_file)
    /\ UNCHANGED <<page, audio_recording, analysis_results, current_session,
                   target_wpm, max_filler_rate, clock, calls>>

\* "Analyze Speech": the run stores the inputs, calls analyze_audio, which
\* sleeps, assigns analysis_results and current_session and calls st.rerun();
\* the second run stores the inputs again.
ClickAnalyze ==
    /\ AnalyzeOffered
    /\ clock + SleepSeconds <= MaxClock
    /\ LET stored == StoreAudioInputs(audio_recording, uploaded_file, audio_file)
           now    == clock + SleepSeconds
       IN  /\ stored # None
           /\ analysis_results' = Some(PlaceholderResults)
           /\ current_session' = Some(now)
           /\ clock' = now
           /\ audio_file' = StoreAudioInputs(audio_recording, uploaded_file, stored)
           /\ calls' = calls \cup
                 { [ audio           |-> stored,
                     at              |-> now,
                     metrics         |-> PlaceholderResults.metrics,
                     scores          |-> PlaceholderResults.scores ] }
    /\ UNCHANGED <<page, audio_recording, uploaded_file, target_wpm,
                   max_filler_rate>>

\* A variant of "Analyze Another" that clears the results but keeps the audio.
ClickAnalyzeAnotherKeepsAudio ==
    /\ page = "Record & Analyze" /\ analysis_results # None
    /\ analysis_results' = None
    /\ audio_file' = audio_file
    /\ UNCHANGED <<page, audio_recording, uploaded_file, current_session,
                   target_wpm, max_filler_rate, clock, calls>>

\* "Analyze Another": the run stores the inputs, clears analysis_results and
\* audio_file and calls st.rerun(); the second run stores the inputs again.
ClickAnalyzeAnother ==
    /\ ResultsDisplayed
    /\ analysis_results' = None
    /\ audio_file' = StoreAudioInputs(audio_recording, uploaded_file, None)
    /\ UNCHANGED <<page, audio_recording, uploaded_file, current_session,
                   target_wpm, max_filler_rate, clock, calls>>

\* "Save Session": a success message only.
ClickSaveSession ==
    /\ ResultsDisplayed
    /\ audio_file' = StoreAudioInputs(audio_recording, uploaded_file, audio_file)
    /\ UNCHANGED <<page, audio_recording, uploaded_file, analysis_results,
                   current_session, target_wpm, max_filler_rate, clock, calls>>

\* "View History": st.switch_page leaves the session state and the radio alone.
ClickViewHistory ==
    /\ ResultsDisplayed
    /\ audio_file' = StoreAudioInputs(audio_recording, uploaded_file, audio_file)
    /\ UNCHANGED <<page, audio_recording, uploaded_file, analysis_results,
                   current_session, target_wpm, max_filler_rate, clock, calls>>

\* The target pace slider is moved.
SetTargetWpm(v) ==
    /\ page = "Settings"
    /\ v # target_wpm
    /\ target_wpm' = v
    /\ UNCHANGED <<page, audio_recording, uploaded_file, audio_file,
                   analysis_results, current_session, max_filler_rate, clock,
                   calls>>

\* The filler rate slider is moved.
SetMaxFillerRate(v) ==
    /\ page = "Settings"
    /\ v # max_filler_rate
    /\ max_filler_rate' = v
    /\ UNCHANGED <<page, audio_recording, uploaded_file, audio_file,
                   analysis_results, current_session, target_wpm, clock, calls>>

\* "Save Settings": a success message only.
ClickSaveSettings ==
    /\ page = "Settings"
    /\ UNCHANGED vars

Next ==
  /\ UNCHANGED <<feedbackVars, tempVars>>
  /\
    \/ Tick
    \/ \E p \in Pages : Navigate(p)
    \/ \E a \in Audio : Record(a)
    \/ ClearRecording
    \/ \E a \in Audio : Upload(a)
    \/ RemoveUpload
    \/ ClickAnalyze
    \/ ClickAnalyzeAnother
    \/ ClickSaveSession
    \/ ClickViewHistory
    \/ \E v \in TargetWpmValues : SetTargetWpm(v)
    \/ \E v \in MaxFillerRateValues : SetMaxFillerRate(v)
    \/ ClickSaveSettings

Spec == Init /\ [][Next]_vars

---------------------------------------------------------------------------
(* src/tests/test_openai.py: the CoachingFeedback model *)

\* Values as Python hands them to the model: a str, an int, a list, or None.
\* Values that pydantic may or may not coerce, depending on its version
\* (a numeric string, a float), are left out.
PyNone == [t |-> "none"]

PyStr(x) == [t |-> "str", v |-> x]

PyInt(n) == [t |-> "int", v |-> n]

PyList(xs) == [t |-> "list", v |-> xs]

\* Largest overall_score tried; the test's invalid value is 10.
MaxScoreInput == 10

ListInputs ==
    { PyNone,
      PyList(<< >>),
      PyList(<< PyStr("Good") >>),
      PyList(<< PyStr("Good"), PyNone >>) }

ScoreInputs == { PyNone } \cup { PyInt(n) : n \in 0..MaxScoreInput }

FeedbackInputs ==
    [ strengths : ListInputs, improvements : ListInputs,
      practice_drills : ListInputs, overall_score : ScoreInputs ]

\* List[str]
IsListOfStr(x) ==
    /\ x.t = "list"
    /\ \A i \in 1..Len(x.v) : x.v[i].t = "str"

\* A model whose score has a lower limit only.
ValidatesWithoutUpperLimit(d) ==
    /\ IsListOfStr(d.strengths)
    /\ IsListOfStr(d.improvements)
    /\ IsListOfStr(d.practice_drills)
    /\ d.overall_score.t = "int"
    /\ d.overall_score.v >= 1

\* CoachingFeedback(**d) raises no ValidationError:
\* three List[str] fields and overall_score: int with ge=1, le=5.
Validates(d) ==
    /\ IsListOfStr(d.strengths)
    /\ IsListOfStr(d.improvements)
    /\ IsListOfStr(d.practice_drills)
    /\ d.overall_score.t = "int"
    /\ d.overall_score.v >= 1
    /\ d.overall_score.v <= 5

\* test_data of test_json_schema_validation
ValidTestData ==
    [ strengths       |-> PyList(<< PyStr("Clear articulation"), PyStr("Good pace") >>),
      improvements    |-> PyList(<< PyStr("Reduce filler words"), PyStr("Shorter pauses") >>),
      practice_drills |-> PyList(<< PyStr("Record 30-second response without filler words") >>),
      overall_score   |-> PyInt(3) ]

\* invalid_data of test_json_schema_validation
InvalidTestData ==
    [ strengths       |-> PyList(<< PyStr("Good") >>),
      improvements    |-> PyList(<< PyStr("Better") >>),
      practice_drills |-> PyList(<< PyStr("Practice") >>),
      overall_score   |-> PyInt(10) ]

\* CoachingFeedback is constructed from d, by a caller or by the parse of a
\* service response.
Construct(d) ==
    /\ fb_data' = Some(d)
    /\ fb_outcome' = IF Validates(d) THEN "accepted" ELSE "rejected"
    /\ UNCHANGED fb_test
    /\ UNCHANGED appVars

\* test_json_schema_validation: the valid data must construct (an exception
\* returns False), then the invalid data must raise (else it returns False).
RunSchemaValidationTest ==
    /\ IF ~Validates(ValidTestData)
         THEN /\ fb_data' = Some(ValidTestData)
              /\ fb_outcome' = "rejected"
              /\ fb_test' = "fail"
         ELSE /\ fb_data' = Some(InvalidTestData)
              /\ fb_outcome' = IF Validates(InvalidTestData)
                                 THEN "accepted" ELSE "rejected"
              /\ fb_test' = IF Validates(InvalidTestData) THEN "fail" ELSE "pass"
    /\ UNCHANGED appVars

FeedbackNext ==
  /\ UNCHANGED tempVars
  /\
    \/ \E d \in FeedbackInputs : Construct(d)
    \/ RunSchemaValidationTest

FeedbackSpec == Init /\ [][FeedbackNext]_vars

---------------------------------------------------------------------------
(* src/tests/test_streamlit_audio.py: temporary files *)

\* Temporary files one check may create.
MaxTempFiles == 3

\* What matters of an audio clip here: whether librosa.load can decode it and
\* whether its sample rate is 16000.
AudioClips == [decodable : BOOLEAN, rate16k : BOOLEAN]

\* One script run's widget values: st.audio_input, st.file_uploader and the
\* "Generate Test Tone" button.
RunInputs ==
    [ recorded : {None} \cup {Some(c) : c \in AudioClips},
      uploaded : {None} \cup {Some(c) : c \in AudioClips},
      tone     : BOOLEAN ]

\* The clip the current function works on.
CurrentClip == IF t_fn = "recording" THEN t_in[1].recorded ELSE t_in[1].uploaded

\* main() starts a run and calls test_audio_recording.
StartRun(in) ==
    /\ t_pc = "idle"
    /\ t_in' = Some(in)
    /\ t_fn' = "recording"
    /\ t_pc' = "begin"
    /\ UNCHANGED <<t_path, t_made, t_count, t_files>>
    /\ UNCHANGED <<appVars, feedbackVars>>

\* "if audio_file is not None", "if uploaded_file is not None",
\* "if st.button(...)": without input the function only reports and returns.
CheckInput ==
    /\ t_pc = "begin"
    /\ LET present == IF t_fn = "playback" THEN t_in[1].tone
                      ELSE CurrentClip # None
       IN  t_pc' = IF present THEN "create" ELSE "return"
    /\ UNCHANGED <<t_in, t_fn, t_path, t_made, t_count, t_files>>
    /\ UNCHANGED <<appVars, feedbackVars>>

\* tempfile.NamedTemporaryFile(delete=False, ...): the file exists from here on.
CreateTempFile ==
    /\ t_pc = "create"
    /\ t_count < MaxTempFiles
    /\ t_count' = t_count + 1
    /\ t_files' = t_files \cup {t_count + 1}
    /\ t_made' = Some(t_count + 1)
    /\ t_pc' = "write"
    /\ UNCHANGED <<t_in, t_fn, t_path>>
    /\ UNCHANGED <<appVars, feedbackVars>>

\* tmp_file.write(...) or sf.write(...) inside the with block, then
\* tmp_file_path = tmp_file.name.  A raise leaves the with block and is caught
\* by "except Exception", which reports it.
WriteTempFile(ok) ==
    /\ t_pc = "write"
    /\ IF ok
         THEN /\ t_path' = t_made
              /\ t_pc' = IF t_fn = "playback" THEN "read" ELSE "load"
         ELSE /\ t_path' = t_path
              /\ t_pc' = "return"
    /\ UNCHANGED <<t_in, t_fn, t_made, t_count, t_files>>
    /\ UNCHANGED <<appVars, feedbackVars>>

\* librosa.load(tmp_file_path, sr=None): raises on a clip it cannot decode.
\* test_audio_upload resamples when the rate is not 16000.
LoadAudio ==
    /\ t_pc = "load"
    /\ t_pc' = IF ~CurrentClip[1].decodable THEN "return"
               ELSE IF t_fn = "upload" /\ ~CurrentClip[1].rate16k THEN "resample"
               ELSE "unlink"
    /\ UNCHANGED <<t_in, t_fn, t_path, t_made, t_count, t_files>>
    /\ UNCHANGED <<appVars, feedbackVars>>

\* librosa.resample(...)
Resample(ok) ==
    /\ t_pc = "resample"
    /\ t_pc' = IF ok THEN "unlink" ELSE "return"
    /\ UNCHANGED <<t_in, t_fn, t_path, t_made, t_count, t_files>>
    /\ UNCHANGED <<appVars, feedbackVars>>

\* test_audio_playback: open(tmp_file_path, 'rb') and f.read()
ReadBack(ok) ==
    /\ t_pc = "read"
    /\ t_pc' = IF ok THEN "unlink" ELSE "return"
    /\ UNCHANGED <<t_in, t_fn, t_path, t_made, t_count, t_files>>
    /\ UNCHANGED <<appVars, feedbackVars>>

\* os.unlink(tmp_file_path), then the success message.
Unlink ==
    /\ t_pc = "unlink"
    /\ t_files' = t_files \ {t_path[1]}
    /\ t_pc' = "return"
    /\ UNCHANGED <<t_in, t_fn, t_path, t_made, t_count>>
    /\ UNCHANGED <<appVars, feedbackVars>>

\* The function returns; main() calls the next one, or the run ends.
Return ==
    /\ t_pc = "return"
    /\ t_path' = None
    /\ t_made' = None
    /\ t_fn' = IF t_fn = "recording" THEN "upload"
               ELSE IF t_fn = "upload" THEN "playback"
               ELSE "none"
    /\ t_pc' = IF t_fn = "playback" THEN "idle" ELSE "begin"
    /\ t_in' = IF t_fn = "playback" THEN None ELSE t_in
    /\ UNCHANGED <<t_count, t_files>>
    /\ UNCHANGED <<appVars, feedbackVars>>

TempNext ==
    \/ \E in \in RunInputs : StartRun(in)
    \/ CheckInput
    \/ CreateTempFile
    \/ \E ok \in BOOLEAN : WriteTempFile(ok)
    \/ LoadAudio
    \/ \E ok \in BOOLEAN : Resample(ok)
    \/ \E ok \in BOOLEAN : ReadBack(ok)
    \/ Unlink
    \/ Return

TempFileSpec == Init /\ [][TempNext]_vars

---------------------------------------------------------------------------
(* Properties *)

\* The result currently held in the session; only read where it is present.
Results == analysis_results[1]

\* The four dimension scores of a score dictionary.
Dimensions == {"pace", "clarity", "fluency", "conciseness"}

\* n / d rounded to the nearest integer, a midpoint rounded up (n >= 0, d > 0).
RoundHalfUp(n, d) == (2 * n + d) \div (2 * d)

Clamp(x, lo, hi) == IF x < lo THEN lo ELSE IF x > hi THEN hi ELSE x

RatesFollowDuration ==
    analysis_results # None =>
        /\ Results.metrics.words_per_minute * Results.metrics.total_duration
              = Len(Results.transcript) * 60
        /\ Results.metrics.filler_rate * Results.metrics.total_duration
              = Results.metrics.filler_count * 600

PaceFiveInsideIdealRange ==
    analysis_results # None =>
        (Results.scores.pace = 5
            <=> Results.metrics.words_per_minute \in IdealWpmLow..IdealWpmHigh)

\* C13: an analysis leaves every piece of session state unchanged and hands
\* its result back to the caller only.
AnalysisLeavesSessionUnchanged ==
    [][ClickAnalyze =>
          UNCHANGED <<audio_file, analysis_results, current_session>>]_vars

\* C14: whenever analysis_results is set, audio_file is set and
\* current_session is set; in particular results are displayed only then.
ResultsImplyAudioAndSession ==
    /\ analysis_results # None => audio_file # None /\ current_session # None
    /\ ResultsDisplayed => AnalyzeOffered /\ calls # {}

\* C14 witness: results are displayed while both widgets are empty, after a
\* second analysis.
ResultsShownWithEmptyWidgets ==
    /\ ResultsDisplayed
    /\ audio_recording = None
    /\ uploaded_file = None
    /\ Cardinality(calls) >= 2

\* C15: "Analyze Another" clears analysis_results and leaves current_session
\* unchanged; with no recording and no upload present the following run has
\* audio_file None, offers no "Analyze Speech" button and displays no results;
\* results reappear only by an analysis of audio that has been supplied.
AnalyzeAnotherClears ==
    [][ /\ ClickAnalyzeAnother =>
            /\ analysis_results' = None
            /\ current_session' = current_session
            /\ ~ResultsDisplayed'
            /\ audio_file' = StoreAudioInputs(audio_recording, uploaded_file, None)
            /\ (audio_recording = None /\ uploaded_file = None) =>
                   audio_file' = None /\ ~AnalyzeOffered'
        /\ (audio_file = None /\ audio_file' # None) =>
               audio_recording' # audio_recording \/ uploaded_file' # uploaded_file
        /\ (analysis_results = None /\ analysis_results' # None) =>
               audio_file # None /\ calls' # calls
      ]_vars

\* C15 witness: after an analysis and "Analyze Another" with empty widgets:
\* a session exists, no results, no audio, and the page is the record page.
ClearedAfterAnalyzeAnother ==
    /\ page = "Record & Analyze"
    /\ current_session # None
    /\ analysis_results = None
    /\ audio_file = None
    /\ audio_recording = None
    /\ uploaded_file = None

\* The data of the last construction; only read where it is present.
Feedback == fb_data[1]

NonEmptyListOfStr(x) == IsListOfStr(x) /\ Len(x.v) > 0

ScoreInOneToFive(x) == x.t = "int" /\ x.v \in 1..5

TempFileDeletedOnReturn ==
    (t_pc = "return" /\ t_made # None) => t_made[1] \notin t_files

===========================================================================
